---- MODULE Spec2Model ----
\* Model of src/src/main.rs: resolve the USDC/WETH 0.3% pool through the Uniswap V3
\* factory (getPool), read the pool's slot0, decode sqrtPriceX96 into an exact
\* rational price with BigRational arithmetic, and print the intermediate values.
\*
\* TLC's integers are 32 bits wide, so every big integer of the program (the U256
\* returned by slot0, the BigInt numerators and denominators of the BigRational
\* values) is held as a sequence of digits:
\*   - a U256 is its 32-byte big-endian ABI word (most significant byte first);
\*   - a BigInt magnitude (always non-negative here: Sign::Plus) is a little-endian
\*     sequence of 12-bit digits (digit products and
\*     column sums then fit TLC's integers) with no high zero digit, <<>> being zero.
EXTENDS Integers, Sequences, FiniteSets, TLC

VARIABLES pc, env_key, pool_address, slot0, sqrt_price, price, stdout, calls, rets, outcome

vars == <<pc, env_key, pool_address, slot0, sqrt_price, price, stdout, calls, rets, outcome>>

\* ---------------------------------------------------------------- bounds
\* The sample sqrtPriceX96 values are built from the offsets 1..MaxSmall.
MaxSmall == 3

\* ------------------------------------------------------ program constants
FEE == 3000
WORD_BYTES == 32
Q96 == 96
DECIMALS_WETH == 18
DECIMALS_USDC == 6
SQUARE == 2

FactoryAddress == "0x1F98431c8aD98523631AE4a59f267346ea31F984"
token0_address == "0xA0b86991c6218b36c1d19D4a2e9Eb0cE3606eB48"
token1_address == "0xC02aaA39b223FE8D0A0e5C4F27eAD9083C756Cc2"
\* "address 0 if it does not exist"
ZeroAddress == "0x0000000000000000000000000000000000000000"

\* ------------------------------------------- big naturals (BigInt magnitude)
\* One digit of a BigInt magnitude holds DigitBits bits.
DigitBits == 12

Max(p, q) == IF p >= q THEN p ELSE q
Min(p, q) == IF p <= q THEN p ELSE q

RECURSIVE Pow2Int(_)
Pow2Int(k) == IF k = 0 THEN 1 ELSE 2 * Pow2Int(k - 1)
Base == Pow2Int(DigitBits)

\* Run Step from s until Done holds, at most 2^k steps (evaluation depth k).
RECURSIVE Iterate(_, _, _, _)
Iterate(Step(_), Done(_), k, s) ==
    IF Done(s) THEN s
    ELSE IF k = 0 THEN Step(s)
    ELSE LET y == Iterate(Step, Done, k - 1, s)
         IN  IF Done(y) THEN y ELSE Iterate(Step, Done, k - 1, y)

Dig(a, i) == IF i >= 1 /\ i <= Len(a) THEN a[i] ELSE 0

\* Drop high zero digits (BigUint::normalize).
RECURSIVE Trim(_)
Trim(s) == IF s = <<>> \/ s[Len(s)] # 0 THEN s ELSE Trim(SubSeq(s, 1, Len(s) - 1))

\* Carry (or borrow) propagation over a sequence of column values.
CarryStep(c, s) ==
    LET t == Dig(c, s.i) + s.carry
    IN  [out |-> Append(s.out, t % Base), carry |-> t \div Base, i |-> s.i + 1]
CarryDone(c, s) == s.i > Len(c) /\ s.carry = 0
Carry(c) ==
    Iterate(LAMBDA s: CarryStep(c, s), LAMBDA s: CarryDone(c, s), 7,
            [out |-> <<>>, carry |-> 0, i |-> 1]).out

Add(a, b) == Trim(Carry([i \in 1..Max(Len(a), Len(b)) |-> Dig(a, i) + Dig(b, i)] \o <<>>))
\* a - b for a >= b
Sub(a, b) == Trim(Carry([i \in 1..Len(a) |-> a[i] - Dig(b, i)] \o <<>>))
MulSmall(a, m) == Trim(Carry([i \in 1..Len(a) |-> a[i] * m] \o <<>>))

RECURSIVE ColSum(_, _, _, _)
ColSum(a, b, k, i) ==
    IF i > Len(a) \/ i > k THEN 0
    ELSE a[i] * Dig(b, k - i + 1) + ColSum(a, b, k, i + 1)
Mul(a, b) ==
    IF a = <<>> \/ b = <<>> THEN <<>>
    ELSE Trim(Carry([k \in 1..(Len(a) + Len(b) - 1) |->
                        ColSum(a, b, k, Max(1, k - Len(b) + 1))] \o <<>>))

\* num_traits::pow: exponentiation by squaring
RECURSIVE PowN(_, _)
PowN(a, n) ==
    IF n = 0 THEN <<1>>
    ELSE LET h == PowN(a, n \div 2)
             sq == Mul(h, h)
         IN  IF n % 2 = 1 THEN Mul(sq, a) ELSE sq

RECURSIVE CmpAt(_, _, _)
CmpAt(a, b, i) ==
    IF i = 0 THEN 0
    ELSE IF a[i] > b[i] THEN 1
    ELSE IF a[i] < b[i] THEN -1
    ELSE CmpAt(a, b, i - 1)
\* -1, 0, 1 as a is below, equal to, above b
Cmp(a, b) ==
    IF Len(a) > Len(b) THEN 1
    ELSE IF Len(a) < Len(b) THEN -1
    ELSE CmpAt(a, b, Len(a))

RECURSIVE LowZeroDigits(_, _)
LowZeroDigits(a, i) == IF a[i] # 0 THEN i - 1 ELSE LowZeroDigits(a, i + 1)
RECURSIVE LowZeroBits(_)
LowZeroBits(d) == IF d % 2 = 1 THEN 0 ELSE 1 + LowZeroBits(d \div 2)
\* number of trailing zero bits of a nonzero value
TrailingZeros(a) ==
    LET q == LowZeroDigits(a, 1) IN DigitBits * q + LowZeroBits(a[q + 1])

Shr(a, k) ==
    LET q == k \div DigitBits
        r == k % DigitBits
        lo == Pow2Int(r)
        hi == Pow2Int(DigitBits - r)
    IN  IF Len(a) <= q THEN <<>>
        ELSE Trim([i \in 1..(Len(a) - q) |->
                      (a[i + q] \div lo) + (Dig(a, i + q + 1) % lo) * hi] \o <<>>)
Shl(a, k) ==
    LET q == k \div DigitBits
        r == k % DigitBits
        lo == Pow2Int(DigitBits - r)
        hi == Pow2Int(r)
    IN  IF a = <<>> THEN <<>>
        ELSE Trim([i \in 1..(Len(a) + q + 1) |->
                      (Dig(a, i - q) % lo) * hi + (Dig(a, i - q - 1) \div lo)] \o <<>>)

OddPart(a) == Shr(a, TrailingZeros(a))

\* Stein's binary gcd, as num-integer computes it for BigUint.
GcdStep(s) ==
    IF Cmp(s.a, s.b) > 0 THEN [a |-> OddPart(Sub(s.a, s.b)), b |-> s.b]
    ELSE [a |-> s.a, b |-> OddPart(Sub(s.b, s.a))]
GcdDone(s) == s.a = s.b
Gcd(a, b) ==
    IF a = <<>> THEN b
    ELSE IF b = <<>> THEN a
    ELSE Shl(Iterate(GcdStep, GcdDone, 10, [a |-> OddPart(a), b |-> OddPart(b)]).a,
             Min(TrailingZeros(a), TrailingZeros(b)))

\* Inverse of an odd digit modulo Base (Newton: x := x (2 - d x)).
InvStep(d, y) == (y * ((2 + Base - ((d * y) % Base)) % Base)) % Base
InvDigit(d) == InvStep(d, InvStep(d, InvStep(d, InvStep(d, d % 8))))

\* The quotient a / g for an odd g that divides a, lowest digit first.
DivOddStep(g, inv, s) ==
    LET qd == (s.r[1] * inv) % Base
        sub == Carry([i \in 1..Len(s.r) |-> s.r[i] - qd * Dig(g, i)] \o <<>>)
    IN  [q |-> Append(s.q, qd), r |-> Trim(Tail(sub))]
DivOdd(a, g) ==
    LET inv == InvDigit(g[1])
    IN  Trim(Iterate(LAMBDA s: DivOddStep(g, inv, s), LAMBDA s: s.r = <<>>, 6,
                     [q |-> <<>>, r |-> a]).q)
\* a / g for a nonzero g that divides a (the division of Ratio::reduce)
DivExact(a, g) ==
    IF a = <<>> THEN <<>>
    ELSE LET k == TrailingZeros(g) IN DivOdd(Shr(a, k), Shr(g, k))

\* A decimal literal, most significant digit first.
FromDecimalStep(ds, s) ==
    [acc |-> Add(MulSmall(s.acc, 10), IF ds[s.i] = 0 THEN <<>> ELSE <<ds[s.i]>>),
     i |-> s.i + 1]
FromDecimal(ds) ==
    Iterate(LAMBDA s: FromDecimalStep(ds, s), LAMBDA s: s.i > Len(ds), 6,
            [acc |-> <<>>, i |-> 1]).acc
FromInt(n) == IF n = 0 THEN <<>> ELSE Trim(Carry(<<n>>))

\* --------------------------------------------------- BigRational (Ratio<BigInt>)
\* A ratio is [numer, denom], both magnitudes; the program builds no negative value.
RatioDivPanics_Never(a, b) == FALSE
\* Ratio / Ratio panics ("denominator == 0") when the divisor is zero.
RatioDivPanics(a, b) == b.numer = <<>>

\* Ratio::new: the fraction in lowest terms (Ratio::reduce).
RatioNew(n, d) ==
    IF n = <<>> THEN [numer |-> <<>>, denom |-> <<1>>]
    ELSE LET g == Gcd(n, d)
         IN  [numer |-> DivExact(n, g), denom |-> DivExact(d, g)]
\* BigRational::from_integer
from_integer(n) == [numer |-> n, denom |-> <<1>>]
\* Ratio::pow with a non-negative exponent
RatioPow(r, e) == [numer |-> PowN(r.numer, e), denom |-> PowN(r.denom, e)]
\* Ratio / Ratio, for a nonzero divisor
RatioDiv(a, b) == RatioNew(Mul(a.numer, b.denom), Mul(a.denom, b.numer))

\* ------------------------------------------------------------ U256 and bytes
ZeroWord == [i \in 1..WORD_BYTES |-> 0]

to_big_endian(w) == w
\* U256::to_little_endian: the 32 bytes, least significant first
to_little_endian(w) == [i \in 1..WORD_BYTES |-> w[WORD_BYTES + 1 - i]]

\* BigInt::from_bytes_le(Sign::Plus, bytes): the bytes packed into digits
from_bytes_le(bytes) ==
    LET B(j) == IF j <= Len(bytes) THEN bytes[j] ELSE 0
        n == (8 * Len(bytes)) \div DigitBits + 1
    IN  Trim([j \in 1..n |->
                 LET q == (DigitBits * (j - 1)) \div 8
                     r == (DigitBits * (j - 1)) % 8
                     t == B(q + 1) + 256 * B(q + 2) + 65536 * B(q + 3)
                 IN  (t \div Pow2Int(r)) % Base] \o <<>>)

\* The 32-byte big-endian ABI word of a value below 2^256 (how the node returns it).
WordOf(a) ==
    [i \in 1..WORD_BYTES |->
        LET j == WORD_BYTES - i
            q == (8 * j) \div DigitBits
            r == (8 * j) % DigitBits
            t == Dig(a, q + 1) + Base * Dig(a, q + 2)
        IN  (t \div Pow2Int(r)) % 256]

\* ------------------------------------------------------------- price decoding
\* lines 60-67: sqrt_price = from_integer(from_bytes_le(le bytes of slot0.0)) / 2^96
SqrtPriceOf(w) ==
    RatioDiv(from_integer(from_bytes_le(to_little_endian(w))),
             RatioPow(from_integer(<<2>>), Q96))

DecimalsAdjust_Sum == RatioPow(from_integer(<<10>>), DECIMALS_WETH + DECIMALS_USDC)
\* BigRational::new(10, 1).pow(18 - 6)
DecimalsAdjust == RatioPow(from_integer(<<10>>), DECIMALS_WETH - DECIMALS_USDC)

PricePanics(sq) == RatioDivPanics(DecimalsAdjust, RatioPow(sq, SQUARE))
PriceOf_NoSquare(sq) == RatioDiv(DecimalsAdjust, sq)
\* line 73: price = 10^(18 - 6) / sqrt_price^2, for a nonzero sqrt_price
PriceOf(sq) == RatioDiv(DecimalsAdjust, RatioPow(sq, SQUARE))

\* ------------------------------------------------- the f32 of the price line
\* core::f64 and core::f32: mantissa width and exponent range
F64_MANTISSA_DIGITS == 53
F64_MAX_EXP == 1024
F64_MIN_EXP == -1021
F32_MANTISSA_DIGITS == 24
F32_MAX_EXP == 128
F32_MIN_EXP == -125

RECURSIVE IntBits(_)
IntBits(d) == IF d = 0 THEN 0 ELSE 1 + IntBits(d \div 2)
\* BigInt::bits: the length in bits
BitLen(a) == IF a = <<>> THEN 0 ELSE DigitBits * (Len(a) - 1) + IntBits(a[Len(a)])
\* bit k (from 0) of a
Bit(a, k) == (Dig(a, k \div DigitBits + 1) \div Pow2Int(k % DigitBits)) % 2
\* a with its k low bits cleared
ClearLow(a, k) == Shl(Shr(a, k), k)
\* a magnitude below 2^31 as an integer
ToInt(a) == Dig(a, 1) + Base * Dig(a, 2) + Base * Base * Dig(a, 3)

\* Integer::div_rem for a nonzero divisor: binary long division
DivRemStep(d, s) ==
    LET t == Shl(d, s.i)
    IN  IF Cmp(t, s.r) <= 0
        THEN [q |-> Add(s.q, Shl(<<1>>, s.i)), r |-> Sub(s.r, t), i |-> s.i - 1]
        ELSE [q |-> s.q, r |-> s.r, i |-> s.i - 1]
DivRem(n, d) ==
    Iterate(LAMBDA s: DivRemStep(d, s), LAMBDA s: s.i < 0, 10,
            [q |-> <<>>, r |-> n, i |-> Max(BitLen(n) - BitLen(d), 0)])

\* A float is inf, zero, or the finite value m * 2^e.
FloatInf == [kind |-> "inf", m |-> <<>>, e |-> 0]
FloatZero == [kind |-> "zero", m |-> <<>>, e |-> 0]

\* m rounded to a multiple of 2^k, ties to even, then divided by 2^k
RoundShift(m, k) ==
    IF k <= 0 THEN Shl(m, -k)
    ELSE LET q == Shr(m, k)
             half == Bit(m, k - 1) = 1
             sticky == ClearLow(m, k - 1) # m
         IN  IF half /\ (sticky \/ Bit(q, 0) = 1) THEN Add(q, <<1>>) ELSE q

\* Ratio::to_f64 (num-rational's ratio_to_f64) of a non-negative ratio: the quotient
\* is taken with 55 or 56 bits and rounded to 53, ties to even. (Its fast path for
\* small numerators and denominators divides in the FPU, with the same result.)
ratio_to_f64(p) ==
    IF p.denom = <<>> THEN FloatInf
    ELSE IF p.numer = <<>> THEN FloatZero
    ELSE LET diff == BitLen(p.numer) - BitLen(p.denom)
         IN  IF diff > F64_MAX_EXP THEN FloatInf
             ELSE IF -diff > -F64_MIN_EXP + F64_MANTISSA_DIGITS + 1 THEN FloatZero
             ELSE LET shift == Max(diff, F64_MIN_EXP) - F64_MANTISSA_DIGITS - 2
                      n2 == IF shift >= 0 THEN p.numer ELSE Shl(p.numer, -shift)
                      d2 == IF shift >= 0 THEN Shl(p.denom, shift) ELSE p.denom
                      qr == DivRem(n2, d2)
                      nrb == Max(BitLen(qr.q), F64_MIN_EXP - shift) - F64_MANTISSA_DIGITS
                      ls_bit == Bit(qr.q, nrb) = 1
                      ms_rounding_bit == Bit(qr.q, nrb - 1) = 1
                      ls_rounding_bits == ClearLow(qr.q, nrb - 1) # qr.q
                      up == ms_rounding_bit /\ (ls_bit \/ ls_rounding_bits \/ qr.r # <<>>)
                      q1 == ClearLow(IF up THEN Add(qr.q, Shl(<<1>>, nrb)) ELSE qr.q, nrb)
                  IN  IF q1 = <<>> THEN FloatZero
                      ELSE IF BitLen(q1) + shift > F64_MAX_EXP THEN FloatInf
                      ELSE [kind |-> "finite", m |-> q1, e |-> shift]

\* `as f32` of an f64: the nearest f32, ties to even; inf beyond the f32 range, 0
\* below its least subnormal. The result is written m * 2^e with m odd.
f64_to_f32(x) ==
    IF x.kind # "finite" THEN [kind |-> x.kind, m |-> 0, e |-> 0]
    ELSE LET top == BitLen(x.m) + x.e
             qe == Max(top, F32_MIN_EXP) - F32_MANTISSA_DIGITS
             mant == RoundShift(x.m, qe - x.e)
         IN  IF mant = <<>> THEN [kind |-> "zero", m |-> 0, e |-> 0]
             ELSE IF BitLen(mant) + qe > F32_MAX_EXP THEN [kind |-> "inf", m |-> 0, e |-> 0]
             ELSE LET z == TrailingZeros(mant)
                  IN  [kind |-> "finite", m |-> ToInt(Shr(mant, z)), e |-> qe + z]

\* line 76: price.to_f32(), num-traits' default: to_f64 and then the cast to f32
to_f32(p) == f64_to_f32(ratio_to_f64(p))

\* ------------------------------------------------------------------- inputs
\* env::var("ALCHEMY_API_KEY"): set, not set, or set to a non-unicode value
EnvStates == {"present", "missing", "not_unicode"}

\* What getPool may answer: the zero address or a pool
PoolAddresses ==
    {ZeroAddress,
     "0x8ad599c3A0ff1De082011EFDDc58f1908eb6e6D8",
     "0x88e6A0c2dDD26FEEb64F039a2c41296FcB3f5640"}

TwoPow96 == PowN(<<2>>, Q96)
TwoPow160 == PowN(<<2>>, 160)
TwoPow256 == PowN(<<2>>, 8 * WORD_BYTES)
\* sqrtPriceX96 of USDC/WETH near 3500 and near 2000 USDC per WETH
Realistic ==
    {FromDecimal(<<1,3,3,9,2,0,0,3,7,2,8,6,5,0,5,7,4,0,7,8,9,8,8,6,9,7,0,2,4,0,1,0,5,7>>),
     FromDecimal(<<1,7,7,1,5,9,5,5,7,1,1,4,2,9,5,7,1,0,2,9,6,1,0,1,7,1,6,1,6,0,7,2,6,0>>)}
SqrtValues ==
    {<<>>} \cup Realistic
    \cup {FromInt(k) : k \in 1..MaxSmall}
    \cup {MulSmall(TwoPow96, k) : k \in 1..MaxSmall}
    \cup {Add(TwoPow96, FromInt(k)) : k \in 1..MaxSmall}
    \cup {Sub(TwoPow160, FromInt(k)) : k \in 1..MaxSmall}
    \cup {Sub(TwoPow256, FromInt(k)) : k \in 1..MaxSmall}
\* The words slot0 may return. The field is a U256 (line 17): the uint160 values of
\* a pool, and the larger words a contract that is not a pool may answer.
SqrtSamples == {WordOf(a) : a \in SqrtValues}

NoRatio == [numer |-> <<>>, denom |-> <<>>]
NoSlot0 == [sqrtPriceX96 |-> <<>>, tick |-> 0, observationIndex |-> 0,
            observationCardinality |-> 0, observationCardinalityNext |-> 0,
            feeProtocol |-> 0, unlocked |-> FALSE]
Slot0Values ==
    {[sqrtPriceX96 |-> w, tick |-> 0, observationIndex |-> 0,
      observationCardinality |-> 1, observationCardinalityNext |-> 1,
      feeProtocol |-> 0, unlocked |-> u] : w \in SqrtSamples, u \in BOOLEAN}

\* ---------------------------------------------------------------- the run
EnvVarIsErr_Lenient(e) == FALSE
\* line 28: env::var(..)? fails when the variable is not set or not unicode
EnvVarIsErr(e) == e \in {"missing", "not_unicode"}

Running == [exit |-> "running", error |-> "none"]
\* line 78: Ok(()), the process exits 0
ExitOk == [exit |-> "ok", error |-> "none"]
Fail_Swallow(kind) == [exit |-> "ok", error |-> "none"]
\* the ? operator: main returns the error, the process exits non-zero
Fail(kind) == [exit |-> "err", error |-> kind]
\* a panic in the arithmetic: the process aborts with a non-zero exit code
Panic == [exit |-> "panic", error |-> "arith"]

\* lines 48-49: the getPool call on the factory
GetPoolCall ==
    [fn |-> "getPool", to |-> FactoryAddress,
     args |-> <<token0_address, token1_address, FEE>>]
Slot0Target_Factory(pool) == FactoryAddress
\* line 54: IUniswapV3PoolState::new(pool_address, provider)
Slot0Target(pool) == pool
Slot0Call(pool) == [fn |-> "slot0", to |-> Slot0Target(pool), args |-> <<>>]

PrintResult_Silent(out, addr) == out
\* line 51
PrintResult(out, addr) == Append(out, [tag |-> "result", val |-> addr])
\* line 57
PrintSlot0(out, s) == Append(out, [tag |-> "slot0", val |-> s])
PrintSqrtPrice_Silent(out, r) == out
\* line 68
PrintSqrtPrice(out, r) == Append(out, [tag |-> "sqrt_price", val |-> r])
\* line 76: the f32 of the price is printed ({:?} of an f32 names its value: "inf",
\* "0.0", or the shortest decimal that reads back as that f32)
PrintPrice(out, p) == Append(out, [tag |-> "price", val |-> to_f32(p)])

Init ==
    /\ pc = "start"
    /\ env_key \in EnvStates
    /\ pool_address = ""
    /\ slot0 = NoSlot0
    /\ sqrt_price = NoRatio
    /\ price = NoRatio
    /\ stdout = <<>>
    /\ calls = <<>>
    /\ rets = <<>>
    /\ outcome = Running

\* line 28, the error branch of ?
ConfigError ==
    /\ pc = "start"
    /\ EnvVarIsErr(env_key)
    /\ outcome' = Fail("config")
    /\ pc' = "done"
    /\ UNCHANGED <<env_key, pool_address, slot0, sqrt_price, price, stdout, calls, rets>>

\* lines 28-50: the key is read, the provider built, getPool issued and awaited
\* (the URL and the three literal addresses of lines 32-43 always parse)
IssueGetPool ==
    /\ pc = "start"
    /\ ~EnvVarIsErr(env_key)
    /\ calls' = Append(calls, GetPoolCall)
    /\ pc' = "getPool"
    /\ UNCHANGED <<env_key, pool_address, slot0, sqrt_price, price, stdout, rets, outcome>>

\* line 50, the error branch of ?: transport error or revert
GetPoolErr ==
    /\ pc = "getPool"
    /\ rets' = Append(rets, [fn |-> "getPool", ok |-> FALSE, addr |-> ""])
    /\ outcome' = Fail("network")
    /\ pc' = "done"
    /\ UNCHANGED <<env_key, pool_address, slot0, sqrt_price, price, stdout, calls>>

\* lines 50-56: getPool answers a, it is printed, slot0 is issued on it and awaited
GetPoolOk ==
    /\ pc = "getPool"
    /\ \E a \in PoolAddresses :
          /\ rets' = Append(rets, [fn |-> "getPool", ok |-> TRUE, addr |-> a])
          /\ pool_address' = a
          /\ stdout' = PrintResult(stdout, a)
          /\ calls' = Append(calls, Slot0Call(a))
    /\ pc' = "slot0"
    /\ UNCHANGED <<env_key, slot0, sqrt_price, price, outcome>>

\* line 56, the error branch of ?
Slot0Err ==
    /\ pc = "slot0"
    /\ rets' = Append(rets, [fn |-> "slot0", ok |-> FALSE, addr |-> ""])
    /\ outcome' = Fail("network")
    /\ pc' = "done"
    /\ UNCHANGED <<env_key, pool_address, slot0, sqrt_price, price, stdout, calls>>

\* lines 56-57: slot0 answers s, it is printed
Slot0Ok ==
    /\ pc = "slot0"
    /\ \E s \in Slot0Values :
          /\ slot0' = s
          /\ stdout' = PrintSlot0(stdout, s)
    /\ rets' = Append(rets, [fn |-> "slot0", ok |-> TRUE, addr |-> ""])
    /\ pc' = "decode"
    /\ UNCHANGED <<env_key, pool_address, sqrt_price, price, calls, outcome>>

\* lines 60-68: sqrt_price is computed and printed
DecodeSqrtPrice ==
    /\ pc = "decode"
    /\ sqrt_price' = SqrtPriceOf(slot0.sqrtPriceX96)
    /\ stdout' = PrintSqrtPrice(stdout, sqrt_price')
    /\ pc' = "price"
    /\ UNCHANGED <<env_key, pool_address, slot0, price, calls, rets, outcome>>

\* line 73 with sqrt_price = 0: the division panics
PricePanic ==
    /\ pc = "price"
    /\ PricePanics(sqrt_price)
    /\ outcome' = Panic
    /\ pc' = "done"
    /\ UNCHANGED <<env_key, pool_address, slot0, sqrt_price, price, stdout, calls, rets>>

\* lines 73-78: the price is computed, its f32 is printed, main returns Ok(());
\* to_f32 yields Some for every ratio (inf and 0 included), so the unwrap of line 76
\* does not panic
ComputePrice ==
    /\ pc = "price"
    /\ ~PricePanics(sqrt_price)
    /\ price' = PriceOf(sqrt_price)
    /\ stdout' = PrintPrice(stdout, price')
    /\ outcome' = ExitOk
    /\ pc' = "done"
    /\ UNCHANGED <<env_key, pool_address, slot0, sqrt_price, calls, rets>>

Next ==
    \/ ConfigError
    \/ IssueGetPool
    \/ GetPoolErr
    \/ GetPoolOk
    \/ Slot0Err
    \/ Slot0Ok
    \/ DecodeSqrtPrice
    \/ PricePanic
    \/ ComputePrice

Spec == Init /\ [][Next]_vars

\* ------------------------------------------------------------- properties
\* The value of a big-endian word, by Horner's rule over its bytes (independent of
\* the program's little-endian route).
ValueStep(w, s) ==
    [acc |-> Add(MulSmall(s.acc, 256), FromInt(w[s.i])), i |-> s.i + 1]
ValueOfWord(w) ==
    Iterate(LAMBDA s: ValueStep(w, s), LAMBDA s: s.i > Len(w), 6,
            [acc |-> <<>>, i |-> 1]).acc

\* the value slot0 returned in this run
V == ValueOfWord(slot0.sqrtPriceX96)
TenPow12 == FromDecimal(<<1,0,0,0,0,0,0,0,0,0,0,0,0>>)
TwoPow192 == Mul(TwoPow96, TwoPow96)
Sq(a) == Mul(a, a)
RatioLess(a, b) == Cmp(Mul(a.numer, b.denom), Mul(b.numer, a.denom)) < 0

Tags(out) == [i \in 1..Len(out) |-> out[i].tag]
Slot0Returned == Len(rets) = 2 /\ rets[2].ok
SqrtDecoded == sqrt_price # NoRatio
PriceComputed == price # NoRatio
NoPriceLine == \A i \in 1..Len(stdout) : stdout[i].tag # "price"

\* sqrt_price is exactly v / 2^96
SqrtExact == Mul(sqrt_price.numer, TwoPow96) = Mul(V, sqrt_price.denom)

\* getPool answered the address of an existing pool
PoolExists == pool_address # "" /\ pool_address # ZeroAddress

\* C1 as stated (in the runs on an existing pool): sqrt_price = v / 2^96 and
\* price = sqrt_price^2 * 10^(18 - 6).
C1_Original ==
    PoolExists =>
        /\ SqrtDecoded => SqrtExact
        /\ PriceComputed =>
              Mul(price.numer, Sq(sqrt_price.denom))
                 = Mul(Mul(Sq(sqrt_price.numer), TenPow12), price.denom)

\* C1, amended: for every nonzero 160-bit value v returned by slot0, sqrt_price is
\* exactly v / 2^96 and the rational price, before the float conversion, is exactly
\* 10^(18 - 6) / sqrt_price^2 (price * sqrt_price^2 = 10^12); a nonzero v always
\* gets its price. For v = 0, sqrt_price is exactly 0.
C1_DecodedPrice ==
    /\ SqrtDecoded => SqrtExact /\ sqrt_price.denom # <<>>
    /\ PriceComputed =>
          /\ V # <<>>
          /\ price.denom # <<>>
          /\ Mul(price.numer, Sq(sqrt_price.numer))
                = Mul(Mul(TenPow12, price.denom), Sq(sqrt_price.denom))
    /\ (pc = "done" /\ Slot0Returned /\ V # <<>>) => PriceComputed

C1_Witness ==
    /\ PoolExists
    /\ PriceComputed
    /\ pc = "done"
    /\ V \in Realistic

\* C2: when slot0 returns sqrtPriceX96 = 0 the run ends in the division-by-zero
\* panic, and no price (0, infinity or any other) is computed or printed.
C2_ZeroFails ==
    (Slot0Returned /\ slot0.sqrtPriceX96 = ZeroWord) =>
        /\ ~PriceComputed
        /\ NoPriceLine
        /\ outcome.exit # "ok"
        /\ pc = "done" => outcome = [exit |-> "panic", error |-> "arith"]

C2_Witness ==
    /\ pc = "done"
    /\ slot0.sqrtPriceX96 = ZeroWord
    /\ outcome.exit = "panic"
    /\ Tags(stdout) = <<"result", "slot0", "sqrt_price">>

\* C3 as stated: slot0 is never called on the zero address, and after getPool
\* returned the zero address no price is decoded or printed.
C3_ZeroPoolAborts ==
    /\ \A i \in 1..Len(calls) : calls[i].fn = "slot0" => calls[i].to # ZeroAddress
    /\ pool_address = ZeroAddress => ~SqrtDecoded /\ ~PriceComputed /\ NoPriceLine

\* C4: with ALCHEMY_API_KEY missing the run ends with the configuration error and
\* no remote call is ever issued.
C4_MissingKeyAborts ==
    env_key = "missing" =>
        /\ calls = <<>>
        /\ rets = <<>>
        /\ pc \in {"start", "done"}
        /\ pc = "done" => outcome = [exit |-> "err", error |-> "config"]

C4_Witness == env_key = "missing" /\ pc = "done" /\ outcome.error = "config"

Failed == outcome.exit \in {"err", "panic"}

\* C5 as stated (in the runs on an existing pool): a run that ends in failure has
\* written nothing to standard output.
C5_Original == (PoolExists /\ Failed) => stdout = <<>>

\* C5, amended: a run that ends in failure never wrote the price line; it wrote
\* nothing on a configuration error or a getPool failure, the pool address line on
\* a slot0 failure, and the pool address, slot0 and sqrt_price lines on the
\* arithmetic failure.
C5_FailureOutput ==
    Failed =>
        /\ NoPriceLine
        /\ outcome.error = "config" => stdout = <<>>
        /\ (outcome.error = "network" /\ Len(rets) = 1) => stdout = <<>>
        /\ (outcome.error = "network" /\ Len(rets) = 2) =>
              /\ Tags(stdout) = <<"result">>
              /\ stdout[1].val = pool_address
        /\ outcome.error = "arith" =>
              Tags(stdout) = <<"result", "slot0", "sqrt_price">>

C5_Witness ==
    /\ PoolExists
    /\ Failed
    /\ outcome.error = "network"
    /\ Len(rets) = 2
    /\ Len(stdout) = 1

\* C6 as stated (in the runs on an existing pool): a successful run writes exactly
\* three lines: the pool address, the slot0 tuple and the price.
C6_Original ==
    (PoolExists /\ outcome.exit = "ok") => Tags(stdout) = <<"result", "slot0", "price">>

\* the largest finite f32, 2^128 - 2^104, and the inverse of the least normal one
F32Max == Sub(PowN(<<2>>, F32_MAX_EXP), PowN(<<2>>, F32_MAX_EXP - F32_MANTISSA_DIGITS))
F32MinNormalInv == PowN(<<2>>, 1 - F32_MIN_EXP)
\* the ratio p lies in the normal f32 range: 2^-126 <= p <= 2^128 - 2^104
InF32Range(p) ==
    /\ Cmp(Mul(p.numer, F32MinNormalInv), p.denom) >= 0
    /\ Cmp(p.numer, Mul(F32Max, p.denom)) <= 0
\* |m * 2^e - p| as a numerator over p.denom * 2^max(-e, 0)
FloatErr(f, p) ==
    LET a == Mul(Shl(FromInt(f.m), Max(f.e, 0)), p.denom)
        b == Shl(p.numer, Max(-f.e, 0))
    IN  IF Cmp(a, b) >= 0 THEN Sub(a, b) ELSE Sub(b, a)
\* f is a finite f32 m * 2^e (m odd, below 2^24) with |f - p| <= 2^-23 * p
Approximates(f, p) ==
    /\ f.kind = "finite"
    /\ f.m \in 1..(Pow2Int(F32_MANTISSA_DIGITS) - 1)
    /\ f.m % 2 = 1
    /\ Cmp(Shl(FloatErr(f, p), F32_MANTISSA_DIGITS - 1), Shl(p.numer, Max(-f.e, 0))) <= 0

\* C6, amended: a successful run writes exactly four lines, in this order: the
\* pool address, the slot0 tuple, the exact rational sqrt_price, and the price
\* converted to an f32 (to f64, then to f32), which is within 2^-23 of the exact
\* price, relatively, whenever the exact price lies in the normal f32 range.
C6_FourLines ==
    outcome.exit = "ok" =>
        /\ Tags(stdout) = <<"result", "slot0", "sqrt_price", "price">>
        /\ stdout[1].val = pool_address
        /\ stdout[2].val = slot0
        /\ stdout[3].val = sqrt_price
        /\ stdout[4].val = to_f32(price)
        /\ InF32Range(price) => Approximates(stdout[4].val, price)

C6_Witness ==
    /\ PoolExists
    /\ outcome.exit = "ok"
    /\ Len(stdout) = 4
    /\ V \in Realistic
    /\ InF32Range(price)
    /\ stdout[4].val.kind = "finite"

\* what went wrong in this run so far, if anything
ErrorSeen ==
    IF env_key # "present" THEN "config"
    ELSE IF \E i \in 1..Len(rets) : ~rets[i].ok THEN "network"
    ELSE IF SqrtDecoded /\ sqrt_price.numer = <<>> /\ pc = "done" THEN "arith"
    ELSE "none"

\* how far main has come
Rank(p) ==
    CASE p = "start" -> 0
      [] p = "getPool" -> 1
      [] p = "slot0" -> 2
      [] p = "decode" -> 3
      [] p = "price" -> 4
      [] p = "done" -> 5

\* C7: every run ends with exactly one exit outcome, reached in at most five steps
\* forward (no step repeats or goes back); it exits zero only after the price
\* line was printed, non-zero with the first error met (configuration, network,
\* arithmetic), and no step runs after the exit. While main reads its
\* configuration or awaits a call, a next step exists (an answer or an error); the
\* decoding steps after slot0 have no guard but the zero test of the division.
C7_ExitOutcome ==
    /\ []((pc = "done") <=> (outcome.exit # "running"))
    /\ [](outcome.exit = "ok" =>
             /\ ErrorSeen = "none"
             /\ stdout # <<>>
             /\ stdout[Len(stdout)].tag = "price")
    /\ [](pc = "done" /\ ErrorSeen # "none" =>
             /\ outcome.exit \in {"err", "panic"}
             /\ outcome.error = ErrorSeen)
    /\ [](pc \in {"start", "getPool", "slot0"} => ENABLED Next)
    /\ [][outcome.exit = "running" /\ Rank(pc') > Rank(pc)]_vars

C7_Witness == pc = "done" /\ outcome.exit = "err" /\ outcome.error = "network"

\* C8: sqrtPriceX96 = 79228162514264337593543950336 = 2^96 decodes to sqrt_price = 1
\* and to the price 10^12 exactly.
Lit2Pow96 ==
    FromDecimal(<<7,9,2,2,8,1,6,2,5,1,4,2,6,4,3,3,7,5,9,3,5,4,3,9,5,0,3,3,6>>)
C8_UnitSqrtPrice ==
    /\ Lit2Pow96 = TwoPow96
    /\ (PriceComputed /\ V = Lit2Pow96) =>
          /\ sqrt_price = [numer |-> <<1>>, denom |-> <<1>>]
          /\ price = [numer |-> TenPow12, denom |-> <<1>>]

C8_Witness == PriceComputed /\ V = Lit2Pow96 /\ pc = "done"

\* C9: each remote call is issued at most once, getPool first; at most one call is
\* outstanding; slot0 is issued only after getPool succeeded, on the address getPool
\* returned; nothing is issued after a failed call.
C9_Sequential ==
    /\ Len(calls) <= 2
    /\ Len(rets) <= Len(calls)
    /\ Len(calls) - Len(rets) <= 1
    /\ \A i \in 1..Len(calls) : calls[i].fn = <<"getPool", "slot0">>[i]
    /\ \A i \in 1..Len(rets) : rets[i].fn = calls[i].fn
    /\ Len(calls) = 2 =>
          /\ Len(rets) >= 1
          /\ rets[1].ok
          /\ calls[2].to = rets[1].addr
          /\ calls[2].to = pool_address
    /\ Len(calls) >= 1 => calls[1].to = FactoryAddress
    /\ \A i \in 1..Len(rets) : ~rets[i].ok => Len(calls) = i /\ pc = "done"

C9_Witness == Len(calls) = 2 /\ Len(rets) = 2 /\ ~rets[2].ok

\* the exact price of every nonzero sample value
PriceTable ==
    {<<ValueOfWord(w), PriceOf(SqrtPriceOf(w))>> : w \in SqrtSamples \ {ZeroWord}}

\* C10: for every nonzero v the exact price satisfies price * v^2 = 10^12 * 2^192,
\* and the price is strictly decreasing in v.
C10_InverseSquare ==
    PriceComputed =>
        /\ Mul(price.numer, Sq(V)) = Mul(Mul(TenPow12, TwoPow192), price.denom)
        /\ \A e \in PriceTable :
              /\ Cmp(e[1], V) < 0 => RatioLess(price, e[2])
              /\ Cmp(e[1], V) > 0 => RatioLess(e[2], price)
              /\ Cmp(e[1], V) = 0 => e[2] = price

C10_Witness ==
    /\ PriceComputed
    /\ \E e \in PriceTable : Cmp(e[1], V) < 0
    /\ \E e \in PriceTable : Cmp(e[1], V) > 0

====
